---- MODULE Spec2Model ----
\* State-machine model of the Conflux gas station handler
\* (rpc/handler/cfx_gasstation.go): the background run loop with its sync
\* attempts over a fail-over cluster, reorg roll-back, the station status and
\* the Suggest query running concurrently with the loop.
EXTENDS Integers, Sequences, FiniteSets, TLC

\* ---------------------------------------------------------------- bounds

\* Largest epoch number a full node reports as its latest state epoch.
MaxEpoch == 3

\* Largest number of members the cluster provider returns.
MaxClients == 3

\* Largest number of block hashes a node returns for one epoch.
MaxEpochBlocks == 2

\* Capacity of the epoch hash list. The source keeps 100 epochs; the model
\* keeps fewer so that eviction of the oldest epoch happens within MaxEpoch.
maxCachedBlockHashEpochs == 2

\* cfg.HistoricalPeekCount: look-back of the start epoch and window capacity.
HistoricalPeekCount == 2

\* Largest fee, in drip per gas, a client or the window answers a Suggest call.
MaxFee == 3

\* Largest gas limit of a block handed to handleBlock.
MaxGas == 4

\* fromEpoch is a uint64; the word is scaled to what TLC's integers hold.
UintModulus == 2 ^ 30

\* ---------------------------------------------------------------- values

Hashes == {"0xAA", "0xBB"}

\* cfxtypes.Hash("") as returned for an empty epoch hash list.
EmptyHash == ""

NoErr == "nil"

\* A failure of the transport: no well-formed JSON-RPC error response.
ErrTransport == "transport error"

\* A well-formed JSON-RPC error response of the node.
ErrRPCJSON == "rpc json error"

ErrPivotSwitched == "pivot switched"

StationStatusOk == "ok"

StationStatusClientUnavailable == "client unavailable"

\* What atomic.Value.Load returns before the first Store.
StatusUnset == "unset"

\* Concrete types of the values updateStatus stores. errors.New makes the
\* pivot-switched error a *errors.errorString; the errors of the client's
\* transport have types of their own. The two status values are declared
\* outside this file: they are taken to have the type of errors.New values,
\* the choice under which Store panics least.
TypeErrorString == "*errors.errorString"

TypeTransportError == "transport error type"

\* The errors an upstream call can end with.
RpcErrors == {ErrTransport, ErrRPCJSON}

\* utils.IsRPCJSONError: whether the error is a JSON-RPC error response.
IsRPCJSONError(e) == e = ErrRPCJSON

\* The member lists the cluster provider can return.
ClusterLists == {[i \in 1..n |-> i] : n \in 0..MaxClients}

\* Non-empty hash lists without repetition: the blocks of one epoch.
RECURSIVE SeqsUpTo(_)
SeqsUpTo(n) ==
    IF n = 0 THEN {<<>>}
    ELSE LET shorter == SeqsUpTo(n - 1)
         IN shorter \cup {Append(s, h) : s \in {t \in shorter : Len(t) = n - 1}, h \in Hashes}

NoRepeat(s) == \A i, j \in 1..Len(s) : i # j => s[i] # s[j]

EpochHashLists == {s \in SeqsUpTo(MaxEpochBlocks) : Len(s) > 0 /\ NoRepeat(s)}

PivotBlocks == [hash : Hashes, parentHash : Hashes]

\* The answers of an upstream call: an error, or one of values with no error.
\* The value that comes with an error is never read.
Answers(values) ==
    {[err |-> e, val |-> CHOOSE v \in values : TRUE] : e \in RpcErrors}
        \cup {[err |-> NoErr, val |-> v] : v \in values}

\* The one answer of a call that is not made; it is never read.
NotAsked(values) == {[err |-> "not asked", val |-> CHOOSE v \in values : TRUE]}

\* The answers of GetEpochNumber, GetBlockByEpoch, GetBlocksByEpoch and of the
\* cluster provider's GetClientsByGroup.
EpochAnswers == Answers(0..MaxEpoch)

PivotAnswers == Answers(PivotBlocks)

PivotNotAsked == NotAsked(PivotBlocks)

HashesAnswers == Answers(EpochHashLists)

HashesNotAsked == NotAsked(EpochHashLists)

ClusterAnswers == Answers(ClusterLists)

\* The error of a call that returns no value the model reads, NoErr for none.
ErrorAnswers == RpcErrors \cup {NoErr}

SeqToSet(s) == {s[i] : i \in 1..Len(s)}

\* ---------------------------------------------------------------- state

VARIABLES
    status,             \* h.status
    clients,            \* h.clients
    cliIndex,           \* h.cliIndex
    fromEpoch,          \* h.fromEpoch
    epochBlockHashList, \* h.epochBlockHashList, oldest first
    window,             \* h.window, oldest first
    pc,                 \* position of the run goroutine
    idx,                \* sync's loop variable
    complete,           \* sync's result
    err,                \* sync's result
    calls,              \* trySync calls made by the sync attempt in progress
    lastStep,           \* how the latest trySync call ended
    startEpoch,         \* fromEpoch as computed at construction
    pivotParent,        \* parent hash of the pivot block the latest trySync
                        \* call fetched, when the call returned no error
    syncInterval,       \* what syncTicker was last armed with
    entries,            \* for each entry of the epoch hash list: the epoch it
                        \* was fetched for, the hash of the pivot block fetched
                        \* and the parent hash that was checked against the
                        \* entry before it
    ingestedEpochs,     \* epochs ingested and not rolled back since
    suggested,          \* outcome of the latest Suggest call
    feeCall,            \* a Suggest call with the fees it is answered and returns
    blockCall,          \* a handleBlock call: the block and the record derived
    stable              \* the chain has stopped changing and member 1 answers
                        \* every call; the other members answer or fail to
                        \* be reached

vars == <<status, clients, cliIndex, fromEpoch, epochBlockHashList, window,
          pc, idx, complete, err, calls, lastStep, startEpoch, syncInterval,
          pivotParent, entries, ingestedEpochs, suggested, feeCall, blockCall,
          stable>>

loop == <<pc, idx, complete, err, calls, lastStep, pivotParent, syncInterval>>

fixed == <<startEpoch, feeCall, blockCall, stable>>

engine == <<fromEpoch, epochBlockHashList, window, entries, ingestedEpochs>>

\* ------------------------------------------- priority fee window (4.2)

\* PriorityFeeWindow.Push: insert at the newest end, evict the oldest on overflow.
WindowPush(w, record) ==
    LET pushed == Append(w, record)
    IN IF Len(pushed) > HistoricalPeekCount THEN Tail(pushed) ELSE pushed

\* PriorityFeeWindow.Remove: delete every record whose hash is among hashes.
WindowRemove(w, hashes) == SelectSeq(w, LAMBDA r : r.hash \notin hashes)

\* PriorityFeeWindow.Calculate: whether the window yields a percentile estimate.
WindowHasEstimate(w) == Len(w) > 0

\* ------------------------------------------------- epoch hash list

\* What pop returns: the block hashes of the last epoch, nil when empty.
popped(list) == IF Len(list) = 0 THEN <<>> ELSE list[Len(list)]

\* pop removing the oldest epoch instead of the last.
popFront(list) == IF Len(list) = 0 THEN list ELSE Tail(list)

\* What pop leaves in the list.
pop(list) == IF Len(list) = 0 THEN list ELSE SubSeq(list, 1, Len(list) - 1)

prevEpochPivotBlockHash(list) ==
    IF Len(list) = 0 THEN EmptyHash
    ELSE LET blockHashes == list[Len(list)] IN blockHashes[Len(blockHashes)]

\* push without the capacity check.
pushUnbounded(list, blockHashes) == Append(list, blockHashes)

push(list, blockHashes) ==
    LET pushed == Append(list, blockHashes)
    IN IF Len(pushed) > maxCachedBlockHashEpochs THEN Tail(pushed) ELSE pushed

\* ------------------------------------------------- one epoch

\* handleReorg: the window after the last epoch's blocks are removed.
handleReorg(list, w) == WindowRemove(w, SeqToSet(popped(list)))

\* The record handleBlock derives from a block.
BlockPriorityFee(block) == [hash |-> block.hash]

handleBlock(w, block) == WindowPush(w, BlockPriorityFee(block))

RECURSIVE handleBlocks(_, _)
handleBlocks(w, blocks) ==
    IF Len(blocks) = 0 THEN w
    ELSE handleBlocks(handleBlock(w, Head(blocks)), Tail(blocks))

\* fetchBlocks with the node's answers: rHashes to GetBlocksByEpoch, rBlocks
\* the error of the first failing GetBlockByHashWithPivotAssumption (NoErr when
\* none fails; the node answers each with the block of the hash asked for).
fetchBlocks(pivotBlock, rHashes, rBlocks) ==
    IF rHashes.err # NoErr
    THEN [err |-> rHashes.err, blockHashes |-> <<>>, blocks |-> <<>>]
    ELSE LET blockHashes == rHashes.val
             pivotHash == blockHashes[Len(blockHashes)]
         IN IF pivotBlock.hash # pivotHash
            THEN [err |-> ErrPivotSwitched, blockHashes |-> <<>>, blocks |-> <<>>]
            ELSE IF Len(blockHashes) > 1 /\ rBlocks # NoErr
            THEN [err |-> rBlocks, blockHashes |-> <<>>, blocks |-> <<>>]
            ELSE [err |-> NoErr,
                  blockHashes |-> blockHashes,
                  blocks |-> [i \in 1..Len(blockHashes) |->
                                 IF i < Len(blockHashes)
                                 THEN [hash |-> blockHashes[i]]
                                 ELSE [hash |-> pivotBlock.hash]]]

\* trySync fetching the pivot block whatever the latest epoch is.
asksPivotAlways(rEpoch) == rEpoch.err = NoErr

\* Whether trySync goes on to GetBlockByEpoch after GetEpochNumber's answer.
asksPivot(rEpoch) == rEpoch.err = NoErr /\ fromEpoch <= rEpoch.val

\* detectsReorg without the test for an empty epoch hash list.
detectsReorgUnguarded(pivotBlock) ==
    prevEpochPivotBlockHash(epochBlockHashList) # pivotBlock.parentHash

\* trySync without the reorg check.
detectsReorgNever(pivotBlock) == FALSE

\* Whether trySync finds the pivot block's parent not to be the previous pivot.
detectsReorg(pivotBlock) ==
    LET prevEpochBh == prevEpochPivotBlockHash(epochBlockHashList)
    IN prevEpochBh # EmptyHash /\ prevEpochBh # pivotBlock.parentHash

\* Whether trySync goes on to fetchBlocks, which calls GetBlocksByEpoch.
asksHashes(rEpoch, rPivot) ==
    asksPivot(rEpoch) /\ rPivot.err = NoErr /\ ~detectsReorg(rPivot.val)

\* Whether fetchBlocks goes on to fetch the epoch's non-pivot blocks.
asksBlocks(rEpoch, rPivot, rHashes) ==
    /\ asksHashes(rEpoch, rPivot)
    /\ rHashes.err = NoErr
    /\ rPivot.val.hash = rHashes.val[Len(rHashes.val)]
    /\ Len(rHashes.val) > 1

\* h.fromEpoch++ stepping over an epoch.
nextEpochSkipping(e) == (e + 2) % UintModulus

\* h.fromEpoch++ and h.fromEpoch-- on the uint64 cursor.
nextEpoch(e) == (e + 1) % UintModulus

prevEpoch(e) == (e - 1) % UintModulus

\* A trySync call that has advanced the cursor by the time it fails.
AdvancedOnError(c, e, step) ==
    [complete |-> c, err |-> e, step |-> step,
     fromEpoch |-> IF e # NoErr THEN (fromEpoch + 1) % UintModulus ELSE fromEpoch,
     list |-> epochBlockHashList, window |-> window]

\* What a trySync call that changes nothing returns.
Unchanged(c, e, step) ==
    [complete |-> c, err |-> e, step |-> step, fromEpoch |-> fromEpoch,
     list |-> epochBlockHashList, window |-> window]

\* How fetchBlocks failed: on GetBlocksByEpoch, on a switched pivot, or on a
\* non-pivot block with the epoch partly fetched.
fetchStage(e, rHashes) ==
    IF rHashes.err # NoErr THEN "error"
    ELSE IF e = ErrPivotSwitched THEN "pivotSwitched" ELSE "errBlock"

\* trySync with the node's answers: rEpoch to GetEpochNumber, rPivot to
\* GetBlockByEpoch, rHashes and rBlocks as in fetchBlocks.
trySync(rEpoch, rPivot, rHashes, rBlocks) ==
    IF rEpoch.err # NoErr THEN Unchanged(FALSE, rEpoch.err, "error")
    ELSE IF fromEpoch > rEpoch.val THEN Unchanged(TRUE, NoErr, "caughtUp")
    ELSE IF rPivot.err # NoErr THEN Unchanged(FALSE, rPivot.err, "error")
    ELSE LET pivotBlock == rPivot.val
         IN IF detectsReorg(pivotBlock)
            THEN [complete |-> FALSE, err |-> NoErr, step |-> "reorg",
                  fromEpoch |-> prevEpoch(fromEpoch),
                  list |-> pop(epochBlockHashList),
                  window |-> handleReorg(epochBlockHashList, window)]
            ELSE LET f == fetchBlocks(pivotBlock, rHashes, rBlocks)
                 IN IF f.err # NoErr
                    THEN Unchanged(FALSE, f.err, fetchStage(f.err, rHashes))
                    ELSE [complete |-> FALSE, err |-> NoErr, step |-> "ingest",
                          fromEpoch |-> nextEpoch(fromEpoch),
                          list |-> push(epochBlockHashList, f.blockHashes),
                          window |-> handleBlocks(window, f.blocks)]

\* ------------------------------------------------- construction

NoSuggestion ==
    [status |-> StatusUnset, kind |-> "none", err |-> NoErr, upstream |-> 0,
     readWindow |-> FALSE]

\* The latest epochs the main client answers at construction: one below the
\* look-back, where the subtraction wraps, and one at it.
StartLatestEpochs == {HistoricalPeekCount - 1, HistoricalPeekCount}

\* MustNewCfxGasStationHandlerFromViper, for a non-empty cluster whose main
\* client answers latestEpoch; run is started with syncTicker armed with 0.
Constructed ==
    /\ clients \in {c \in ClusterLists : Len(c) > 0}
    /\ cliIndex \in 0..(Len(clients) - 1)
    /\ \E latestEpoch \in StartLatestEpochs :
           fromEpoch = (latestEpoch - HistoricalPeekCount) % UintModulus
    /\ startEpoch = fromEpoch
    /\ epochBlockHashList = <<>>
    /\ window = <<>>
    /\ entries = <<>>
    /\ ingestedEpochs = {}
    /\ status = StatusUnset
    /\ pc = "select"
    /\ idx = 0
    /\ complete = FALSE
    /\ err = NoErr
    /\ calls = 0
    /\ lastStep = "none"
    /\ pivotParent = EmptyHash
    /\ syncInterval = "zero"
    /\ suggested = NoSuggestion
    /\ stable = FALSE

\* No Suggest call and no handleBlock call is followed value by value.
NoFeeCall == [done |-> TRUE]

NoBlockCall == [done |-> TRUE]

Init ==
    /\ Constructed
    /\ feeCall = NoFeeCall
    /\ blockCall = NoBlockCall

\* ------------------------------------------------- the run loop

\* No Suggest call is between its result and its return: a result is handed
\* to the caller before the model takes another step of the run loop.
Returned == suggested = NoSuggestion

\* sync entering its loop with the main client's index as it is.
boundIndexNot(i, n) == i

\* h.cliIndex %= len(h.clients)
boundIndex(i, n) == i % n

\* sync's first lines, on case <-syncTicker.C: the empty cluster is reported,
\* otherwise the main client's index is brought into range and the loop entered.
SyncTick ==
    /\ pc = "select"
    /\ Returned
    /\ IF Len(clients) = 0
       THEN /\ complete' = FALSE
            /\ err' = StationStatusClientUnavailable
            /\ pc' = "update"
            /\ UNCHANGED <<cliIndex, idx>>
       ELSE /\ cliIndex' = boundIndex(cliIndex, Len(clients))
            /\ idx' = cliIndex'
            /\ pc' = "trySync"
            /\ UNCHANGED <<complete, err>>
    /\ UNCHANGED <<status, clients, engine, fixed, calls, lastStep, pivotParent,
                   syncInterval, suggested>>

\* sync's loop failing over on JSON-RPC errors too.
syncStopsOnSuccessOnly(e) == e = NoErr

\* Whether sync's loop ends on the member just tried.
syncStops(e) == e = NoErr \/ IsRPCJSONError(e)

\* sync forgetting to record the member that answered.
mainClientStale(i, e) == cliIndex

\* h.cliIndex after trySync on clients[i] returned e.
mainClient(i, e) == IF syncStops(e) THEN i ELSE cliIndex

\* sync's loop stepping over a member.
nextIdxSkipping(i, n) == (i + 2) % n

\* The member sync tries after member i of n.
nextIdx(i, n) == (i + 1) % n

\* What is recorded of an entry pushed for epoch with pivotBlock fetched: the
\* parent hash only when there was an entry before it to check it against.
Entry(epoch, pivotBlock) ==
    [epoch |-> epoch, pivotHash |-> pivotBlock.hash,
     parentHash |-> IF Len(epochBlockHashList) = 0
                    THEN EmptyHash ELSE pivotBlock.parentHash]

\* The oldest entry held has no entry before it.
Oldest(es) ==
    IF Len(es) = 0 THEN es ELSE [es EXCEPT ![1].parentHash = EmptyHash]

\* The records of the entries after a trySync call that ended as step.
entriesAfter(step, pivotBlock) ==
    IF step = "ingest" THEN Oldest(push(entries, Entry(fromEpoch, pivotBlock)))
    ELSE IF step = "reorg" THEN pop(entries)
    ELSE entries

ingestedAfter(step) ==
    IF step = "ingest" THEN ingestedEpochs \cup {fromEpoch}
    ELSE IF step = "reorg" /\ Len(entries) > 0
    THEN ingestedEpochs \ {popped(entries).epoch}
    ELSE ingestedEpochs

\* The chain once it has stopped changing: its latest epoch, and for each
\* epoch one block, the pivot, whose parent is the pivot of the epoch before.
StableLatestEpoch == MaxEpoch

CanonHash(epoch) == IF epoch % 2 = 0 THEN "0xAA" ELSE "0xBB"

CanonPivot(epoch) ==
    [hash |-> CanonHash(epoch), parentHash |-> CanonHash(epoch - 1)]

\* The member that answers every call once the chain has stopped changing.
GoodMember == 1

\* What clients[idx] answers a call then: the chain's value, or for a member
\* other than GoodMember possibly a transport error.
StableAnswers(value) ==
    {[err |-> NoErr, val |-> value]}
        \cup IF clients[idx + 1] = GoodMember THEN {}
             ELSE {[err |-> ErrTransport, val |-> value]}

\* The answers clients[idx] can give to the calls of trySync.
epochAnswers ==
    IF stable THEN StableAnswers(StableLatestEpoch) ELSE EpochAnswers

pivotAnswers ==
    IF stable THEN StableAnswers(CanonPivot(fromEpoch)) ELSE PivotAnswers

hashesAnswers ==
    IF stable THEN StableAnswers(<<CanonHash(fromEpoch)>>) ELSE HashesAnswers

blockAnswers == IF stable THEN {NoErr} ELSE ErrorAnswers

\* One round of sync's loop: trySync on clients[idx], then break or move on.
TrySync ==
    /\ pc = "trySync"
    /\ Returned
    /\ \E rEpoch \in epochAnswers :
       \E rPivot \in IF asksPivot(rEpoch) THEN pivotAnswers ELSE PivotNotAsked :
       \E rHashes \in IF asksHashes(rEpoch, rPivot)
                       THEN hashesAnswers ELSE HashesNotAsked :
       \E rBlocks \in IF asksBlocks(rEpoch, rPivot, rHashes)
                       THEN blockAnswers ELSE {NoErr} :
       \E r \in {trySync(rEpoch, rPivot, rHashes, rBlocks)} :
           LET next == nextIdx(idx, Len(clients))
           IN /\ fromEpoch' = r.fromEpoch
              /\ epochBlockHashList' = r.list
              /\ window' = r.window
              /\ complete' = r.complete
              /\ err' = r.err
              /\ lastStep' = r.step
              /\ pivotParent' = IF r.err = NoErr /\ rPivot.err = NoErr
                                THEN rPivot.val.parentHash ELSE EmptyHash
              /\ entries' = entriesAfter(r.step, rPivot.val)
              /\ ingestedEpochs' = ingestedAfter(r.step)
              /\ calls' = calls + 1
              /\ cliIndex' = mainClient(idx, r.err)
              /\ IF syncStops(r.err)
                 THEN idx' = idx /\ pc' = "update"
                 ELSE /\ idx' = next
                      /\ pc' = IF next = cliIndex THEN "update" ELSE "trySync"
    /\ UNCHANGED <<status, clients, fixed, syncInterval, suggested>>

\* The value updateStatus stores for sync's error.
updateStatus(e) == IF e # NoErr /\ ~IsRPCJSONError(e) THEN e ELSE StationStatusOk

\* The concrete type of a value stored into h.status.
typeOf(v) == IF v = ErrTransport THEN TypeTransportError ELSE TypeErrorString

\* atomic.Value.Store panics on a value whose concrete type is not that of
\* the value stored first.
storePanics(v) == status # StatusUnset /\ typeOf(status) # typeOf(v)

resetSyncTicker(c, e) ==
    IF e # NoErr THEN "normal" ELSE IF c THEN "normal" ELSE "catchUp"

\* run after sync returned: updateStatus, resetSyncTicker, back to select. A
\* panic of Store is not recovered on run's goroutine and ends the process.
UpdateStatus ==
    /\ pc = "update"
    /\ Returned
    /\ IF storePanics(updateStatus(err))
       THEN /\ pc' = "panic"
            /\ UNCHANGED <<status, syncInterval, idx, complete, err, calls,
                           lastStep, pivotParent>>
       ELSE /\ status' = updateStatus(err)
            /\ syncInterval' = resetSyncTicker(complete, err)
            /\ pc' = "select"
            /\ idx' = 0
            /\ complete' = FALSE
            /\ err' = NoErr
            /\ calls' = 0
            /\ lastStep' = "none"
            /\ pivotParent' = EmptyHash
    /\ UNCHANGED <<clients, cliIndex, engine, fixed, suggested>>

\* refreshClusterNodes run from a goroutine of its own, at any point of sync.
RefreshClusterNodesOwnGoroutine ==
    /\ pc # "panic"
    /\ Returned
    /\ \E r \in ClusterAnswers :
           clients' = IF r.err # NoErr THEN clients ELSE r.val
    /\ UNCHANGED <<status, cliIndex, engine, loop, fixed, suggested>>

\* refreshClusterNodes on case <-refreshTicker.C; a provider error changes nothing.
RefreshClusterNodes ==
    /\ pc = "select"
    /\ Returned
    /\ \E r \in ClusterAnswers :
           /\ stable => (r.err # NoErr \/ Len(r.val) > 0)
           /\ clients' = IF r.err # NoErr THEN clients ELSE r.val
    /\ UNCHANGED <<status, cliIndex, engine, loop, fixed, suggested>>

\* From here on the chain does not change and GoodMember, a member of the
\* cluster, answers every call.
Stabilise ==
    /\ ~stable
    /\ pc # "panic"
    /\ Len(clients) > 0
    /\ stable' = TRUE
    /\ UNCHANGED <<status, clients, cliIndex, engine, loop, startEpoch,
                   suggested, feeCall, blockCall>>

\* ------------------------------------------------- Suggest

\* Suggest with the client's answers: rBase to GetBlockSummaryByEpoch, rOracle
\* to GetMaxPriorityFeePerGas. The type assertion on the nil that Load returns
\* before the first Store panics.
suggest(rBase, rOracle) ==
    IF status # StationStatusOk
    THEN IF status = StatusUnset
         THEN [status |-> status, kind |-> "panic", err |-> NoErr,
               upstream |-> 0, readWindow |-> FALSE]
         ELSE [status |-> status, kind |-> "error", err |-> status,
               upstream |-> 0, readWindow |-> FALSE]
    ELSE IF rBase # NoErr
    THEN [status |-> status, kind |-> "error", err |-> rBase,
          upstream |-> 1, readWindow |-> FALSE]
    ELSE IF WindowHasEstimate(window)
    THEN [status |-> status, kind |-> "fees", err |-> NoErr,
          upstream |-> 1, readWindow |-> TRUE]
    ELSE IF rOracle # NoErr
    THEN [status |-> status, kind |-> "error", err |-> rOracle,
          upstream |-> 2, readWindow |-> TRUE]
    ELSE [status |-> status, kind |-> "fees", err |-> NoErr,
          upstream |-> 2, readWindow |-> TRUE]

\* A Suggest call on its caller's goroutine, at any point of the run loop.
Suggest ==
    /\ pc # "panic"
    /\ Returned
    /\ \E rBase \in IF status = StationStatusOk THEN ErrorAnswers ELSE {NoErr} :
       \E rOracle \in IF status = StationStatusOk /\ rBase = NoErr
                          /\ ~WindowHasEstimate(window)
                       THEN ErrorAnswers ELSE {NoErr} :
           suggested' = suggest(rBase, rOracle)
    /\ UNCHANGED <<status, clients, cliIndex, engine, loop, fixed>>

\* The caller takes the result of its Suggest call.
SuggestReturn ==
    /\ ~Returned
    /\ suggested' = NoSuggestion
    /\ UNCHANGED <<status, clients, cliIndex, engine, loop, fixed>>

\* ------------------------------------------------- Suggest, value by value

Fees == 0..MaxFee

\* The answers of GetBlockSummaryByEpoch, read for its base fee, and of
\* GetMaxPriorityFeePerGas.
FeeAnswers == Answers(Fees)

FeeNotAsked == NotAsked(Fees)

\* What stats.AvgPercentiledPriorityFee holds after Calculate: nil, or one
\* estimate for each of the three percentiles.
Estimates == {<<>>} \cup [1..3 -> Fees]

Statuses ==
    {StatusUnset, StationStatusOk, StationStatusClientUnavailable,
     ErrTransport, ErrPivotSwitched}

GasFeeEstimation(baseFeePerGas, priorityFee) ==
    [SuggestedMaxPriorityFeePerGas |-> priorityFee,
     SuggestedMaxFeePerGas |-> baseFeePerGas + priorityFee]

\* The medium tier copied from the low one.
SuggestedGasFeesCopied(baseFeePerGas, priorityFees) ==
    [Low |-> GasFeeEstimation(baseFeePerGas, priorityFees[1]),
     Medium |-> GasFeeEstimation(baseFeePerGas, priorityFees[1]),
     High |-> GasFeeEstimation(baseFeePerGas, priorityFees[3]),
     EstimatedBaseFee |-> baseFeePerGas]

\* The tiers of the types.SuggestedGasFees that Suggest returns.
SuggestedGasFees(baseFeePerGas, priorityFees) ==
    [Low |-> GasFeeEstimation(baseFeePerGas, priorityFees[1]),
     Medium |-> GasFeeEstimation(baseFeePerGas, priorityFees[2]),
     High |-> GasFeeEstimation(baseFeePerGas, priorityFees[3]),
     EstimatedBaseFee |-> baseFeePerGas]

\* What a Suggest call returns: fees is nil (<<>>) or holds the estimate.
Returns(kind, e, fees) == [kind |-> kind, err |-> e, fees |-> fees]

\* Suggest for the status loaded, the estimates Calculate made, and the
\* client's answers rBase and rOracle.
suggestFees(st, estimate, rBase, rOracle) ==
    IF st # StationStatusOk
    THEN Returns(IF st = StatusUnset THEN "panic" ELSE "error", st, <<>>)
    ELSE IF rBase.err # NoErr THEN Returns("error", rBase.err, <<>>)
    ELSE IF estimate = <<>> /\ rOracle.err # NoErr
    THEN Returns("error", rOracle.err, <<>>)
    ELSE LET oracleFee == rOracle.val
             priorityFees == IF estimate = <<>>
                             THEN <<oracleFee, oracleFee, oracleFee>>
                             ELSE estimate
         IN Returns("fees", NoErr,
                    <<SuggestedGasFees(rBase.val, priorityFees)>>)

\* The Suggest calls followed value by value.
FeeCalls ==
    {[status |-> st, estimate |-> est, rBase |-> rBase, rOracle |-> rOracle,
      done |-> FALSE, result |-> Returns("none", NoErr, <<>>)] :
         st \in Statuses, est \in Estimates,
         rBase \in FeeAnswers \cup FeeNotAsked,
         rOracle \in FeeAnswers \cup FeeNotAsked}

\* Whether the call goes on to GetBlockSummaryByEpoch, and from there to
\* GetMaxPriorityFeePerGas.
feeAsksBase(c) == c.status = StationStatusOk

feeAsksOracle(c) ==
    feeAsksBase(c) /\ c.rBase.err = NoErr /\ c.estimate = <<>>

\* The handler as constructed, about to answer one Suggest call.
InitFees ==
    /\ Constructed
    /\ clients = <<1>>
    /\ startEpoch = 0
    /\ blockCall = NoBlockCall
    /\ feeCall \in {c \in FeeCalls :
                        /\ c.rBase \in FeeNotAsked <=> ~feeAsksBase(c)
                        /\ c.rOracle \in FeeNotAsked <=> ~feeAsksOracle(c)}

SuggestFees ==
    /\ ~feeCall.done
    /\ feeCall' = [feeCall EXCEPT
                      !.done = TRUE,
                      !.result = suggestFees(feeCall.status, feeCall.estimate,
                                             feeCall.rBase, feeCall.rOracle)]
    /\ UNCHANGED <<status, clients, cliIndex, engine, loop, startEpoch,
                   suggested, blockCall, stable>>

\* ------------------------------------------------- handleBlock, value by value

\* The blocks handed to handleBlock, with what the record is derived from.
Blocks ==
    {[hash |-> h, baseFee |-> f, gasUsed |-> u, gasLimit |-> l] :
         h \in Hashes, f \in Fees, u \in 0..MaxGas, l \in 1..MaxGas}

\* big.NewInt(0).Div(GasUsed, GasLimit).Float64(): the quotient of the
\* integer division as a float64, written as the fraction num / den.
gasUsedRatio(gasUsed, gasLimit) == [num |-> gasUsed \div gasLimit, den |-> 1]

\* The BlockPriorityFee handleBlock pushes, fields read from the block.
blockFee(block) ==
    [hash |-> block.hash, baseFee |-> block.baseFee,
     gasUsedRatio |-> gasUsedRatio(block.gasUsed, block.gasLimit)]

\* No record derived yet.
NoRecord ==
    [hash |-> EmptyHash, baseFee |-> 0, gasUsedRatio |-> [num |-> 0, den |-> 1]]

\* The handler as constructed, about to handle one block.
InitRatio ==
    /\ Constructed
    /\ clients = <<1>>
    /\ startEpoch = 0
    /\ feeCall = NoFeeCall
    /\ blockCall \in {[block |-> b, done |-> FALSE, record |-> NoRecord] :
                          b \in {c \in Blocks : c.gasUsed <= c.gasLimit}}

HandleBlock ==
    /\ ~blockCall.done
    /\ blockCall' = [blockCall EXCEPT !.done = TRUE,
                                      !.record = blockFee(blockCall.block)]
    /\ UNCHANGED <<status, clients, cliIndex, engine, loop, startEpoch,
                   suggested, feeCall, stable>>

\* ------------------------------------------------- specifications

\* The run goroutine and the callers of Suggest.
Next ==
    \/ SyncTick
    \/ TrySync
    \/ UpdateStatus
    \/ RefreshClusterNodes
    \/ Suggest
    \/ SuggestReturn

Spec == Init /\ [][Next]_vars

\* The run goroutine alone. Suggest writes none of the handler's fields, so the
\* run goroutine takes the same steps whether or not Suggest is being called.
NextSync ==
    \/ SyncTick
    \/ TrySync
    \/ UpdateStatus
    \/ RefreshClusterNodes

SpecSync == Init /\ [][NextSync]_vars

\* The run goroutine with its timer firing, its client calls returning and the
\* chain coming to rest at some point.
NextLive ==
    \/ NextSync
    \/ Stabilise

SpecLive ==
    /\ Init
    /\ [][NextLive]_vars
    /\ WF_vars(SyncTick)
    /\ WF_vars(TrySync)
    /\ WF_vars(UpdateStatus)

\* One Suggest call with the fees it is answered.
NextFees == SuggestFees

SpecFees == InitFees /\ [][NextFees]_vars

\* One handleBlock call with the record it derives.
NextRatio == HandleBlock

SpecRatio == InitRatio /\ [][NextRatio]_vars

TypeOK ==
    /\ status \in {StatusUnset, StationStatusOk, StationStatusClientUnavailable,
                   ErrTransport, ErrPivotSwitched}
    /\ clients \in ClusterLists
    /\ cliIndex \in 0..(MaxClients - 1)
    /\ pc \in {"select", "trySync", "update", "panic"}
    /\ Len(epochBlockHashList) <= maxCachedBlockHashEpochs
    /\ Len(window) <= HistoricalPeekCount

\* ------------------------------------------------- properties

\* The errors of a sync attempt that are not JSON-RPC errors of a node.
TransportClassErrors == {ErrTransport, ErrPivotSwitched}

\* A step of the run loop that is a trySync call.
TrySyncStep == pc = "trySync" /\ calls' = calls + 1

\* A step of the run loop that is the updateStatus after a sync attempt.
UpdateStep == pc = "update" /\ pc' # "update"

\* C1: a sync attempt over n members calls trySync on each member at most
\* once: the member called next is the calls-th after the member the attempt
\* started at and fewer than n calls were made before it, so the attempt ends
\* within n calls; an attempt that ends with a non-RPC error of the members
\* has made exactly n calls, is back at its start and returns a member's error.
C1_EachMemberAtMostOnce ==
    /\ pc = "trySync" =>
           /\ Len(clients) > 0
           /\ calls < Len(clients)
           /\ idx = (cliIndex + calls) % Len(clients)
    /\ (pc = "update" /\ err # StationStatusClientUnavailable) =>
           calls \in 1..Len(clients)
    /\ (pc = "update" /\ err \in TransportClassErrors) =>
           /\ calls = Len(clients)
           /\ idx = cliIndex
           /\ lastStep \in {"error", "errBlock", "pivotSwitched"}

\* An attempt over three members that all failed with transport errors.
C1_Witness ==
    /\ pc = "update"
    /\ Len(clients) = 3
    /\ calls = 3
    /\ err = ErrTransport

\* C2: the member whose trySync call succeeds, the calls-th after the
\* attempt's start, becomes the main client; a failed call leaves the main
\* client as it is, and so do updateStatus and a cluster refresh; the next
\* attempt starts with its first call on the main client.
C2_PreferredFollowsSuccess ==
    [][/\ (TrySyncStep /\ err' = NoErr) =>
              /\ cliIndex' = (cliIndex + calls) % Len(clients)
              /\ cliIndex' = idx
              /\ pc' = "update"
       /\ (TrySyncStep /\ err' \in TransportClassErrors) => cliIndex' = cliIndex
       /\ pc = "update" => cliIndex' = cliIndex
       /\ (pc = "select" /\ pc' = "select") => cliIndex' = cliIndex
       /\ (pc = "select" /\ pc' = "trySync" /\ cliIndex < Len(clients)) =>
              /\ cliIndex' = cliIndex
              /\ idx' = cliIndex
      ]_vars

\* Three members, the attempt started at member 0, members 0 and 1 failed
\* and member 2 succeeded: the main client is member 2.
C2_Witness ==
    /\ pc = "update"
    /\ Len(clients) = 3
    /\ calls = 3
    /\ err = NoErr
    /\ cliIndex = 2

\* The pivot hash of the last entry of the epoch hash list.
LastPivotHash == epochBlockHashList[Len(epochBlockHashList)][Len(epochBlockHashList[Len(epochBlockHashList)])]

\* C3: a trySync call that goes on from a pivot block whose parent hash is not
\* the pivot hash of the last entry of a non-empty epoch hash list removes
\* that last entry and no other, removes from the window the records whose
\* hash is in it and no other, lowers the cursor by one and returns
\* (false, nil); it adds no record and no entry.
C3_ReorgRollsBackOneEpoch ==
    [][(/\ TrySyncStep
        /\ pivotParent' # EmptyHash
        /\ Len(epochBlockHashList) > 0
        /\ LastPivotHash # pivotParent') =>
           /\ epochBlockHashList' =
                  SubSeq(epochBlockHashList, 1, Len(epochBlockHashList) - 1)
           /\ window' = SelectSeq(window, LAMBDA r :
                  r.hash \notin SeqToSet(epochBlockHashList[Len(epochBlockHashList)]))
           /\ fromEpoch' = fromEpoch - 1
           /\ err' = NoErr
           /\ complete' = FALSE
           /\ lastStep' = "reorg"
      ]_vars

\* A reorg was detected with two epochs in the list and a record in the window.
C3_Witness ==
    /\ lastStep = "reorg"
    /\ Len(epochBlockHashList) = 1
    /\ fromEpoch = startEpoch + 1
    /\ pivotParent # EmptyHash

\* C4: the cursor is never below the start epoch computed at construction,
\* and a step changes it only by +1, on an ingested epoch, or by -1, on a
\* detected reorg.
C4_CursorNotBelowStart ==
    /\ [](fromEpoch >= startEpoch)
    /\ [][fromEpoch' # fromEpoch =>
              \/ TrySyncStep /\ lastStep' = "ingest" /\ fromEpoch' = fromEpoch + 1
              \/ TrySyncStep /\ lastStep' = "reorg" /\ fromEpoch' = fromEpoch - 1
         ]_vars

\* After an eviction from the epoch hash list, reorgs have emptied the list:
\* the cursor stays above the start epoch.
C4_Witness ==
    /\ lastStep = "reorg"
    /\ epochBlockHashList = <<>>
    /\ fromEpoch > startEpoch

\* The status updateStatus is to store for sync's error.
StatusFor(e) == IF e \in {NoErr, ErrRPCJSON} THEN StationStatusOk ELSE e

\* C5: after every sync attempt the status is rewritten from the attempt's
\* error: operational for no error or a JSON-RPC error, the error otherwise,
\* and the run loop goes back to its select.
C5_StatusRewrittenEveryAttempt ==
    [][UpdateStep => pc' = "select" /\ status' = StatusFor(err)]_vars

\* C6: a Suggest call that read a status other than operational failed with
\* that status as its error, called no upstream client and did not read the
\* window.
C6_NotOperationalFailsAtOnce ==
    (suggested.kind # "none" /\ suggested.status # StationStatusOk) =>
        /\ suggested.kind = "error"
        /\ suggested.err = suggested.status
        /\ suggested.upstream = 0
        /\ ~suggested.readWindow

\* C7: a Suggest call ends with a fee estimate or with an error value, and
\* the status it read is one of the defined values, never the unset one.
C7_SuggestReadsDefinedStatus ==
    suggested.kind # "none" =>
        /\ suggested.kind \in {"fees", "error"}
        /\ suggested.status \in {StationStatusOk, StationStatusClientUnavailable}
                                   \cup TransportClassErrors

\* C8: a trySync call that returns an error leaves the cursor, the epoch
\* hash list and the window as they were.
C8_FailedStepChangesNothing ==
    [][(TrySyncStep /\ err' # NoErr) =>
           UNCHANGED <<fromEpoch, epochBlockHashList, window>>]_vars

\* A call failed on a non-pivot block with epochs and records already held.
C8_Witness ==
    /\ lastStep = "errBlock"
    /\ epochBlockHashList # <<>>
    /\ window # <<>>

\* C9: a sync attempt on an empty cluster returns cluster-unavailable with no
\* trySync call and no change of cursor, list, window or main client; the
\* status then becomes cluster-unavailable, and a Suggest call that reads it
\* fails with that value.
C9_EmptyClusterUnavailable ==
    /\ [][(pc = "select" /\ pc' # "select" /\ Len(clients) = 0) =>
              /\ pc' = "update"
              /\ err' = StationStatusClientUnavailable
              /\ calls' = 0
              /\ UNCHANGED <<fromEpoch, epochBlockHashList, window, cliIndex>>
         ]_vars
    /\ [][(UpdateStep /\ err = StationStatusClientUnavailable) =>
              /\ pc' = "select"
              /\ status' = StationStatusClientUnavailable
         ]_vars
    /\ [](suggested.status = StationStatusClientUnavailable =>
              /\ suggested.kind = "error"
              /\ suggested.err = StationStatusClientUnavailable)

\* C10 as stated: a trySync call that fails with a JSON-RPC error of the node
\* is followed by a call on the next member, while members are left.
C10_RpcErrorFailsOver ==
    [][(TrySyncStep /\ err' = ErrRPCJSON /\ calls' < Len(clients)) =>
           /\ pc' = "trySync"
           /\ idx' = (idx + 1) % Len(clients)
      ]_vars

\* C10 as amended: a trySync call that fails with an error that is not a
\* JSON-RPC error is followed by a call on the next member, wrapping, for the
\* same epoch; the attempt ends when a call succeeds, when a call returns a
\* JSON-RPC error, or when all members have been tried once; a JSON-RPC
\* error ends it on the member that returned it, which becomes the main client.
C10_TransportErrorFailsOver ==
    [][TrySyncStep =>
           /\ (err' \in TransportClassErrors /\ calls' < Len(clients)) =>
                  /\ pc' = "trySync"
                  /\ idx' = (idx + 1) % Len(clients)
                  /\ fromEpoch' = fromEpoch
           /\ pc' = "update" <=>
                  (err' \in {NoErr, ErrRPCJSON} \/ calls' = Len(clients))
           /\ err' = ErrRPCJSON => (pc' = "update" /\ cliIndex' = idx)
      ]_vars

\* An attempt failed over from one member and ended on the next member's
\* JSON-RPC error with a third member untried.
C10_Witness ==
    /\ pc = "update"
    /\ Len(clients) = 3
    /\ calls = 2
    /\ err = ErrRPCJSON

\* The interval the sync timer is to be armed with after an attempt that
\* returned (c, e): catch-up only for no error and not caught up.
IntervalFor(c, e) == IF e = NoErr /\ ~c THEN "catchUp" ELSE "normal"

\* C11: after every sync attempt the sync timer is re-armed, with the
\* catch-up interval if and only if the attempt returned no error and
\* reported not caught up, with the steady-state interval otherwise, and the
\* run loop goes back to its select.
C11_TimerRearmedEveryAttempt ==
    [][UpdateStep =>
           pc' = "select" /\ syncInterval' = IntervalFor(complete, err)]_vars

\* The block hashes of the window's records, oldest first.
WindowHashes(w) == [i \in 1..Len(w) |-> w[i].hash]

\* The last n elements of a sequence, all of them when it has fewer.
LastN(q, n) == IF Len(q) <= n THEN q ELSE SubSeq(q, Len(q) - n + 1, Len(q))

\* C12: the epoch hash list never holds more than maxCachedBlockHashEpochs
\* entries; an epoch ingested while it holds that many removes the oldest
\* entry only, keeps the others in order and appends the new one, and the
\* cursor and the window change as by any ingest: the cursor by one, the
\* window by the new epoch's records and nothing of the evicted entry.
C12_HistoryBounded ==
    /\ [](Len(epochBlockHashList) <= maxCachedBlockHashEpochs)
    /\ [][(TrySyncStep /\ lastStep' = "ingest"
              /\ Len(epochBlockHashList) = maxCachedBlockHashEpochs) =>
             /\ Len(epochBlockHashList') = maxCachedBlockHashEpochs
             /\ SubSeq(epochBlockHashList', 1, maxCachedBlockHashEpochs - 1)
                    = Tail(epochBlockHashList)
             /\ fromEpoch' = fromEpoch + 1
             /\ WindowHashes(window') =
                    LastN(WindowHashes(window)
                              \o epochBlockHashList'[maxCachedBlockHashEpochs],
                          HistoricalPeekCount)
        ]_vars

\* An epoch was ingested into a full list: the oldest entry, of the start
\* epoch, was evicted.
C12_Witness ==
    /\ lastStep = "ingest"
    /\ Len(epochBlockHashList) = maxCachedBlockHashEpochs
    /\ fromEpoch = startEpoch + maxCachedBlockHashEpochs + 1

\* C13: the epochs ingested and not rolled back are at every moment the
\* epochs from the start epoch up to the cursor, none skipped; an ingest
\* takes the epoch at the cursor, which is not among them and whose
\* predecessor is the last of them, and moves the cursor up by one; a reorg
\* takes back the epoch just below the cursor, the one of the entry it
\* removes, and moves the cursor onto it, so that it is the next ingested.
C13_EpochsIngestedInOrder ==
    /\ [](ingestedEpochs = {e \in startEpoch..(fromEpoch - 1) : TRUE})
    /\ [][(TrySyncStep /\ lastStep' = "ingest") =>
             /\ fromEpoch \notin ingestedEpochs
             /\ fromEpoch = startEpoch \/ (fromEpoch - 1) \in ingestedEpochs
             /\ ingestedEpochs' = ingestedEpochs \cup {fromEpoch}
             /\ entries'[Len(entries')].epoch = fromEpoch
             /\ fromEpoch' = fromEpoch + 1
        ]_vars
    /\ [][(TrySyncStep /\ lastStep' = "reorg") =>
             /\ entries[Len(entries)].epoch = fromEpoch - 1
             /\ ingestedEpochs' = ingestedEpochs \ {fromEpoch - 1}
             /\ fromEpoch' = fromEpoch - 1
        ]_vars

\* Two epochs were ingested and the second was rolled back by a reorg: it
\* is at the cursor again, to be ingested next.
C13_Witness ==
    /\ lastStep = "reorg"
    /\ fromEpoch = startEpoch + 1
    /\ ingestedEpochs = {startEpoch}
    /\ Len(epochBlockHashList) = 1

\* The fields the run goroutine owns.
owned == <<clients, cliIndex, fromEpoch, epochBlockHashList>>

\* C14: the member list changes only between sync attempts, in a step that
\* is no part of an attempt, so it is the same from the start of an attempt
\* to its updateStatus; an attempt starts only when none is in progress; a
\* Suggest call changes none of the member list, the main client's index,
\* the cursor and the epoch hash list, nor the status, the window or the
\* position of the run goroutine.
C14_SyncAndRefreshExclusive ==
    /\ [][clients' # clients =>
             /\ pc = "select" /\ pc' = "select"
             /\ UNCHANGED <<status, cliIndex, engine, calls>>
        ]_vars
    /\ [][(pc' # pc /\ pc' = "trySync") =>
             (pc = "select" /\ calls = 0 /\ calls' = 0)]_vars
    /\ [][suggested' # suggested =>
             UNCHANGED <<owned, status, window, pc, idx, calls>>]_vars

\* A Suggest call returned fees between the calls of a sync attempt on a
\* list of three members, with epochs held.
C14_Witness ==
    /\ pc = "trySync"
    /\ calls = 1
    /\ Len(clients) = 3
    /\ suggested.kind = "fees"
    /\ epochBlockHashList # <<>>

\* The priority fees of a Suggest call that read the operational status and
\* fetched the base fee: the window's estimates, or the oracle's fee thrice.
PriorityFeesOf(c) ==
    IF c.estimate # <<>> THEN c.estimate
    ELSE <<c.rOracle.val, c.rOracle.val, c.rOracle.val>>

\* C15: a Suggest call that read the operational status and fetched base
\* fee B returns, for the tiers low, medium and high, priority fee P[i] and
\* max fee B + P[i], P being the window's three estimates when it has them
\* and the oracle's fee thrice otherwise; when the base fee fetch fails, or
\* the oracle fetch that is needed, it returns that error and no estimate.
C15_SuggestedFees ==
    (feeCall.done /\ feeCall.status = StationStatusOk) =>
        LET c == feeCall
            r == c.result
            B == c.rBase.val
            P == PriorityFeesOf(c)
        IN IF c.rBase.err # NoErr
           THEN r.kind = "error" /\ r.err = c.rBase.err /\ r.fees = <<>>
           ELSE IF c.estimate = <<>> /\ c.rOracle.err # NoErr
           THEN r.kind = "error" /\ r.err = c.rOracle.err /\ r.fees = <<>>
           ELSE /\ r.kind = "fees" /\ r.err = NoErr /\ Len(r.fees) = 1
                /\ r.fees[1].Low.SuggestedMaxPriorityFeePerGas = P[1]
                /\ r.fees[1].Low.SuggestedMaxFeePerGas = B + P[1]
                /\ r.fees[1].Medium.SuggestedMaxPriorityFeePerGas = P[2]
                /\ r.fees[1].Medium.SuggestedMaxFeePerGas = B + P[2]
                /\ r.fees[1].High.SuggestedMaxPriorityFeePerGas = P[3]
                /\ r.fees[1].High.SuggestedMaxFeePerGas = B + P[3]

\* A call answered base fee 2 with the window's estimates 1, 2 and 3.
C15_Witness ==
    /\ feeCall.done
    /\ feeCall.status = StationStatusOk
    /\ feeCall.estimate = <<1, 2, 3>>
    /\ feeCall.rBase = [err |-> NoErr, val |-> 2]
    /\ feeCall.result.kind = "fees"

\* A call answered base fee 1 and, the window empty, the oracle's fee 3.
C15_WitnessOracle ==
    /\ feeCall.done
    /\ feeCall.status = StationStatusOk
    /\ feeCall.estimate = <<>>
    /\ feeCall.rBase = [err |-> NoErr, val |-> 1]
    /\ feeCall.rOracle = [err |-> NoErr, val |-> 3]
    /\ feeCall.result.kind = "fees"

\* C16: whenever trySync is about to be called, the member it is called on
\* and the main client's index are inside the member list, whatever lists
\* the refreshes have put in place; sync brings the main client's index
\* into the list by the modulo of its length before its first call, and on
\* an empty list it makes no call, takes no modulo and leaves the index.
C16_IndexInsideList ==
    /\ [](pc = "trySync" =>
             /\ idx \in 0..(Len(clients) - 1)
             /\ cliIndex \in 0..(Len(clients) - 1))
    /\ [][(pc = "select" /\ pc' # "select") =>
             IF Len(clients) = 0
             THEN pc' = "update" /\ calls' = 0 /\ UNCHANGED <<cliIndex, idx>>
             ELSE /\ pc' = "trySync"
                  /\ cliIndex' = cliIndex % Len(clients)
                  /\ idx' = cliIndex'
        ]_vars

\* After attempts on a longer list, a refresh has put a shorter, non-empty
\* list in place and the main client's index lies outside it.
C16_Witness ==
    /\ pc = "select"
    /\ status # StatusUnset
    /\ Len(clients) > 0
    /\ cliIndex >= Len(clients)

\* The pivot hash of an entry of the epoch hash list: its last hash.
PivotOf(blockHashes) == blockHashes[Len(blockHashes)]

\* C17: the entries of the epoch hash list are of consecutive epochs, each
\* ends in the hash of the pivot block that was fetched for it, and each
\* entry after the first was pushed for a pivot block whose parent hash is
\* the pivot hash of the entry before it; a push onto a non-empty list is
\* made only for a pivot block whose parent hash is the list's last pivot
\* hash.
C17_EntriesParentLinked ==
    /\ [](/\ Len(entries) = Len(epochBlockHashList)
          /\ \A i \in 1..Len(epochBlockHashList) :
                 /\ entries[i].pivotHash = PivotOf(epochBlockHashList[i])
                 /\ i > 1 =>
                        /\ entries[i].epoch = entries[i - 1].epoch + 1
                        /\ entries[i].parentHash
                               = PivotOf(epochBlockHashList[i - 1]))
    /\ [][(TrySyncStep /\ lastStep' = "ingest"
              /\ Len(epochBlockHashList) > 0) =>
             pivotParent' = LastPivotHash]_vars

\* Two entries are held, the second of two blocks and pushed for a pivot
\* block whose parent is the first entry's pivot.
C17_Witness ==
    /\ lastStep = "ingest"
    /\ Len(epochBlockHashList) = 2
    /\ Len(epochBlockHashList[2]) = 2
    /\ entries[2].parentHash = PivotOf(epochBlockHashList[1])

\* C18: a trySync call that finds the cursor above the latest epoch the
\* client reports returns complete with no error, having fetched no pivot
\* block, and leaves the cursor, the epoch hash list and the window as they
\* were; the attempt ends there on that member. No other call returns
\* complete; a cursor at epoch 0 is above no reported epoch, and a cursor
\* above every epoch a client reports ends the call there or on the error
\* of GetEpochNumber.
C18_CaughtUpChangesNothing ==
    /\ [][(TrySyncStep /\ lastStep' = "caughtUp") =>
             /\ complete' /\ err' = NoErr
             /\ pivotParent' = EmptyHash
             /\ UNCHANGED <<fromEpoch, epochBlockHashList, window>>
             /\ pc' = "update" /\ cliIndex' = idx
        ]_vars
    /\ [][(TrySyncStep /\ complete') => lastStep' = "caughtUp"]_vars
    /\ [][(TrySyncStep /\ fromEpoch = 0) => lastStep' # "caughtUp"]_vars
    /\ [][(TrySyncStep /\ fromEpoch > MaxEpoch) =>
             lastStep' \in {"caughtUp", "error"}]_vars

\* A call found the cursor above the latest epoch with epochs and records
\* held, on the second member tried.
C18_Witness ==
    /\ lastStep = "caughtUp"
    /\ complete
    /\ calls = 2
    /\ epochBlockHashList # <<>>
    /\ window # <<>>

\* C19: the record handleBlock derives carries as gas-used ratio the
\* fraction gas used / gas limit: strictly between 0 and 1 for a block with
\* 0 < gas used < gas limit, and 1 only when gas used equals gas limit.
C19_GasUsedRatioIsFraction ==
    blockCall.done =>
        LET b == blockCall.block
            ratio == blockCall.record.gasUsedRatio
        IN /\ ratio.num * b.gasLimit = b.gasUsed * ratio.den
           /\ (0 < b.gasUsed /\ b.gasUsed < b.gasLimit) =>
                  (0 < ratio.num /\ ratio.num < ratio.den)
           /\ ratio.num = ratio.den => b.gasUsed = b.gasLimit

\* C20: once the chain has stopped changing and a member answers every
\* call, a sync attempt eventually reports caught up, and the attempt that
\* does is followed by the operational status with the run loop back at its
\* select.
C20_EventuallyCaughtUp ==
    /\ stable ~> (stable /\ pc = "update" /\ complete /\ err = NoErr)
    /\ (stable /\ pc = "update" /\ complete /\ err = NoErr)
           ~> (pc = "select" /\ status = StationStatusOk)

====
